---- MODULE Spec2Model ----
(***************************************************************************)
(* Lunar lander (src/lunarlander-o3.py): terrain height field, terrain and *)
(* landing-pad generation, lander dynamics and the main loop's landing     *)
(* evaluation, as a state machine.                                         *)
(*                                                                         *)
(* Number representation.  The program computes in Python floats; the      *)
(* model computes the same expressions in exact arithmetic:                *)
(*   - lengths and velocities (lander x, y, vx, vy, gravity, thrust) are   *)
(*     integers counting hundredths (1.0 is 100);                          *)
(*   - angles are integers counting tenths of a degree (100 deg/s is one   *)
(*     tenth of a degree per millisecond);                                 *)
(*   - dt is an integer number of milliseconds (clock.tick's result);      *)
(*   - fuel is an integer counting fiftieths (20 units/s is one fiftieth   *)
(*     per millisecond; the full tank 100.0 is 5000);                      *)
(*   - terrain heights are exact rationals [n |-> num, d |-> den].         *)
(***************************************************************************)
EXTENDS Integers, Sequences, FiniteSets, TLC

VARIABLES
    pc,              \* where main() is: "menu", "terrain", "pads", "loop", or the exception that ended it
    depth,           \* how many main() calls are below this one on the call stack
    game_state,      \* main's game_state: "menu", "playing", "landed", "crashed"
    score,           \* main's score
    selected_planet, \* main's selected_planet
    gravity,         \* main's gravity (hundredths)
    terrain_points,  \* sequence of [x |-> int, y |-> rational]
    landing_zones,   \* sequence of LandingZone records, in creation order
    used_zones,      \* generate_terrain_and_landing_zones: placed (pad_x, pad_right)
    attempts,        \* generate_terrain_and_landing_zones: attempts
    pad_x,           \* the last candidate's pad_x (0 before the first attempt)
    pad_right,       \* the last candidate's pad_right
    overlap,         \* the last candidate's overlap flag
    lander,          \* the Lander object's fields
    keys,            \* pygame.key.get_pressed() as read by the last loop iteration
    dt,              \* clock.tick(FPS) of the last loop iteration, in ms
    frame,           \* number of physics ticks of this session
    ground_y,        \* main's ground_y (rational), or the probe's result
    in_zone,         \* main's in_zone: index into landing_zones, 0 for None
    speedSq,         \* main's speed, kept as its square vx^2 + vy^2
    probe_x          \* the x handed to get_terrain_height by the probe

genVars  == <<terrain_points, landing_zones, used_zones, attempts, pad_x, pad_right, overlap>>
menuVars == <<game_state, score, selected_planet, gravity>>
loopVars == <<lander, keys, dt, frame, in_zone, speedSq>>
vars     == <<pc, depth, menuVars, genVars, loopVars, ground_y, probe_x>>

----------------------------------------------------------------------------
(* Program constants *)

WIDTH == 1200
HEIGHT == 800
TerrainStep == 20
SmoothIterations == 3
NumZones == 3
MaxAttempts == 20
PadWidthMin == 80
PadWidthMax == 150
PadMargin == 50
PadThickness == 10
PadMaxLandingSpeed == 2
TerrainBandLow == 300
TerrainBandHigh == 100
DefaultStep == 20
RotationRate == 100
HalfExtent == 15
SpawnY == 100
InitialFuel == 100
ThrustAccel == 20
FuelConsumptionRate == 20
DefaultGravity == 10
MoonGravity == 10
MarsGravity == 15
EuropaGravity == 8
RandomGravityLow == 5
RandomGravityHigh == 20
BonusFactor == 50

----------------------------------------------------------------------------
(* Bounds of the explored environment *)

\* physics ticks explored per session
MaxFrames == 128
\* the held keys and the frame time change only every InputPeriod-th tick
InputPeriod == 64
\* restarts explored
MaxRestarts == 1

----------------------------------------------------------------------------
(* Exact rationals *)

RECURSIVE GCD(_, _)
GCD(a, b) == IF b = 0 THEN a ELSE GCD(b, a % b)

Abs(n) == IF n < 0 THEN -n ELSE n

Min(a, b) == IF a < b THEN a ELSE b

Max(a, b) == IF a > b THEN a ELSE b

\* n/d in lowest terms, d > 0
Frac(n, d) ==
    LET g == GCD(Abs(n), d)
    IN  [n |-> n \div g, d |-> d \div g]

Rat(n) == [n |-> n, d |-> 1]

\* least common multiple of two denominators
LCM(c, d) == (c \div GCD(c, d)) * d

RAdd(a, b) ==
    LET l == LCM(a.d, b.d)
    IN  Frac(a.n * (l \div a.d) + b.n * (l \div b.d), l)

RSub(a, b) ==
    LET l == LCM(a.d, b.d)
    IN  Frac(a.n * (l \div a.d) - b.n * (l \div b.d), l)

RMul(a, b) == Frac(a.n * b.n, a.d * b.d)

RDivInt(a, k) == Frac(a.n, a.d * k)

\* floor of a rational
RFloor(a) == a.n \div a.d

\* hundredths h (an integer count) >= rational a, without forming h * a.d in full
HundredthsGeq(h, a) ==
    LET q == RFloor(a)
        r == a.n - q * a.d
        e == h - 100 * q
    IN  IF e >= 100 THEN TRUE
        ELSE IF e < 0 THEN FALSE
        ELSE e * a.d >= 100 * r

\* a local not yet assigned
Unset == [n |-> 0, d |-> 0]

\* the results of a get_terrain_height call that raised
ZeroDivision == [n |-> 1, d |-> 0]

IndexError == [n |-> 2, d |-> 0]

Raised(v) == v.d = 0 /\ v.n # 0

ErrorName(v) == IF v = ZeroDivision THEN "ZeroDivisionError" ELSE "IndexError"

----------------------------------------------------------------------------
(* get_terrain_height *)

\* an interpolation with the two weights exchanged
InterpolateSwapped(x, points, step) ==
    LET idx == x \div (step * 100)
        p1 == points[idx + 1]
        p2 == points[Min(idx + 1, Len(points) - 1) + 1]
        t == Frac(x - p1.x * 100, (p2.x - p1.x) * 100)
    IN  RAdd(RMul(p1.y, t), RMul(p2.y, RSub(Rat(1), t)))

\* lines 30-34; terrain_points[k] is Python's terrain_points[k-1]
Interpolate(x, points, step) ==
    LET idx == x \div (step * 100)
    IN  IF idx + 1 > Len(points) THEN IndexError
        ELSE LET p1 == points[idx + 1]
                 p2 == points[Min(idx + 1, Len(points) - 1) + 1]
                 num == x - p1.x * 100
                 den == (p2.x - p1.x) * 100
             IN  IF den = 0 THEN ZeroDivision
                 ELSE LET t == Frac(num, den)
                      IN  RAdd(RMul(p1.y, RSub(Rat(1), t)), RMul(p2.y, t))

\* a get_terrain_height without the early return for x >= WIDTH
get_terrain_height_unclamped(x, points, step) ==
    IF x <= 0 THEN points[1].y
    ELSE Interpolate(x, points, step)

\* lines 21-34; x is in hundredths
get_terrain_height(x, points, step) ==
    IF x <= 0 THEN points[1].y
    ELSE IF x >= WIDTH * 100 THEN points[Len(points)].y
    ELSE Interpolate(x, points, step)

----------------------------------------------------------------------------
(* smooth_terrain *)

SmoothOnce(points) ==
    [i \in 1..Len(points) |->
        IF i = 1 \/ i = Len(points) THEN points[i]
        ELSE [x |-> points[i].x,
              y |-> RDivInt(RAdd(RAdd(points[i-1].y, points[i].y), points[i+1].y), 3)]]

RECURSIVE smooth_terrain(_, _)
smooth_terrain(points, iterations) ==
    IF iterations = 0 THEN points
    ELSE smooth_terrain(SmoothOnce(points), iterations - 1)

----------------------------------------------------------------------------
(* generate_terrain_and_landing_zones *)

NumPoints == WIDTH \div TerrainStep + 1

\* heights random.randint may return
HeightBand == (HEIGHT - TerrainBandLow)..(HEIGHT - TerrainBandHigh)

\* the raw profile for a choice h of the 61 random heights
RawTerrain(h) == [i \in 1..NumPoints |-> [x |-> (i - 1) * TerrainStep, y |-> Rat(h[i])]]

\* bounded families of random heights: flat profiles and a jagged one
FlatHeights(c) == [i \in 1..NumPoints |-> c]

JaggedHeights(lo, span, mult) == [i \in 1..NumPoints |-> lo + ((i * i * mult) % span)]

\* the candidates (pad_width, pad_x) among cands that random.randint may return
PadDraws(cands) ==
    {c \in cands :
        /\ c[1] \in PadWidthMin..PadWidthMax
        /\ c[2] \in PadMargin..(WIDTH - c[1] - PadMargin)}

\* range(pad_x, pad_right + 1, step)
SampleXs(px, pr, step) == [k \in 1..((pr - px) \div step + 1) |-> px + (k - 1) * step]

RECURSIVE RSum(_, _)
RSum(s, k) == IF k = 0 THEN Rat(0) ELSE RAdd(RSum(s, k - 1), s[k])

Samples(px, pr, points, step) ==
    LET xs == SampleXs(px, pr, step)
    IN  [k \in 1..Len(xs) |-> get_terrain_height(xs[k] * 100, points, step)]

Flatten(points, px, pr, pady) ==
    [i \in 1..Len(points) |->
        IF px <= points[i].x /\ points[i].x <= pr
        THEN [x |-> points[i].x, y |-> pady]
        ELSE points[i]]

\* an overlap test that looks at the most recently placed zone only
OverlapsLastOnly(px, pr, zones) ==
    /\ Len(zones) > 0
    /\ ~(pr < zones[Len(zones)][1] \/ px > zones[Len(zones)][2])

\* an overlap test that lets touching edges through
OverlapsStrictly(px, pr, zones) ==
    \E k \in 1..Len(zones) : ~(pr <= zones[k][1] \/ px >= zones[k][2])

\* lines 73-77: the overlap test of the for loop over used_zones
Overlaps(px, pr, zones) ==
    \E k \in 1..Len(zones) : ~(pr < zones[k][1] \/ px > zones[k][2])

\* LandingZone(zone_rect.x, zone_rect.y, zone_rect.width, zone_rect.height, 2, "Pad")
LandingZone(px, pady, width) ==
    [rect |-> [x |-> px, y |-> RFloor(RSub(pady, Rat(PadThickness))),
               width |-> width, height |-> PadThickness],
     maxLandingSpeed |-> PadMaxLandingSpeed,
     label |-> "Pad"]

RectLeft(z) == z.rect.x

RectRight(z) == z.rect.x + z.rect.width

\* lines 52-64: draw the heights, smooth, and enter the pad loop
GenerateTerrain(heights) ==
    /\ pc = "terrain"
    /\ \E h \in heights :
        /\ \A i \in 1..NumPoints : h[i] \in HeightBand
        /\ terrain_points' = smooth_terrain(RawTerrain(h), SmoothIterations)
    /\ landing_zones' = <<>>
    /\ used_zones' = <<>>
    /\ attempts' = 0
    /\ pc' = "pads"
    /\ UNCHANGED <<depth, menuVars, loopVars, ground_y, probe_x, pad_x, pad_right, overlap>>

\* a loop condition that lets one attempt too many through
LoopContinuesOneMore(zones, n) == Len(zones) < NumZones /\ n <= MaxAttempts

\* line 66: the while condition
LoopContinues(zones, n) == Len(zones) < NumZones /\ n < MaxAttempts

\* lines 66-96: one iteration of the while loop
PadAttempt(draws) ==
    /\ pc = "pads"
    /\ LoopContinues(landing_zones, attempts)
    /\ \E c \in draws :
        LET pad_width == c[1]
            px == c[2]
            pr == px + pad_width
            samples == Samples(px, pr, terrain_points, TerrainStep)
        IN  /\ attempts' = attempts + 1
            /\ pad_x' = px
            /\ pad_right' = pr
            /\ overlap' = Overlaps(px, pr, used_zones)
            /\ IF overlap' \/ Len(samples) = 0
               THEN /\ pc' = "pads"
                    /\ UNCHANGED <<terrain_points, landing_zones, used_zones>>
               ELSE IF \E k \in 1..Len(samples) : Raised(samples[k])
               THEN /\ pc' = ErrorName(samples[CHOOSE k \in 1..Len(samples) : Raised(samples[k])])
                    /\ UNCHANGED <<terrain_points, landing_zones, used_zones>>
               ELSE LET pad_y == RDivInt(RSum(samples, Len(samples)), Len(samples))
                    IN  /\ terrain_points' = Flatten(terrain_points, px, pr, pad_y)
                        /\ landing_zones' = Append(landing_zones, LandingZone(px, pad_y, pad_width))
                        /\ used_zones' = Append(used_zones, <<px, pr>>)
                        /\ pc' = "pads"
    /\ UNCHANGED <<depth, menuVars, loopVars, ground_y, probe_x>>

\* line 97 and line 264: the loop ends, the function returns (its locals are
\* gone) and main creates the Lander
NewLander(g) ==
    [x |-> (WIDTH \div 2) * 100, y |-> SpawnY * 100, vx |-> 0, vy |-> 0, angle |-> 0,
     fuel |-> InitialFuel * 50, gravity |-> g, thrust |-> ThrustAccel,
     fuelConsumptionRate |-> FuelConsumptionRate]

NoLander ==
    [x |-> 0, y |-> 0, vx |-> 0, vy |-> 0, angle |-> 0, fuel |-> 0, gravity |-> 0,
     thrust |-> 0, fuelConsumptionRate |-> 0]

GenReturn ==
    /\ pc = "pads"
    /\ ~LoopContinues(landing_zones, attempts)
    /\ lander' = NewLander(gravity)
    /\ used_zones' = <<>>
    /\ attempts' = 0
    /\ pad_x' = 0
    /\ pad_right' = 0
    /\ overlap' = FALSE
    /\ pc' = "loop"
    /\ UNCHANGED <<depth, menuVars, terrain_points, landing_zones, keys, dt, frame, in_zone,
                   speedSq, ground_y, probe_x>>

----------------------------------------------------------------------------
(* Lander *)

\* sin of an angle of a tenths of a degree, times scale, by Bhaskara's rational
\* approximation 4p/(40500 - p), p = d(180 - d) (exact at 0, 30, 90, 150, 180
\* degrees), rounded to the nearest integer
HalfSine(d, scale) ==
    LET p == d * (1800 - d)
    IN  (2 * scale * 4 * p + (4050000 - p)) \div (2 * (4050000 - p))

Sin(a, scale) ==
    LET m == a % 3600
    IN  IF m <= 1800 THEN HalfSine(m, scale) ELSE -HalfSine(m - 1800, scale)

Cos(a, scale) == Sin(a + 900, scale)

\* an update that lets the fuel go below zero
UpdateNoClamp(l, ms, thrusting) ==
    LET vy1 == l.vy + l.gravity
        burns == thrusting /\ l.fuel > 0
        vx2 == IF burns THEN l.vx - Sin(l.angle, l.thrust) ELSE l.vx
        vy2 == IF burns THEN vy1 - Cos(l.angle, l.thrust) ELSE vy1
        fuel2 == IF burns THEN l.fuel - (l.fuelConsumptionRate * ms * 50) \div 1000 ELSE l.fuel
    IN  [l EXCEPT !.vx = vx2, !.vy = vy2, !.fuel = fuel2,
                  !.x = l.x + vx2, !.y = l.y + vy2]

\* Lander.update(dt, thrusting), dt in ms
Update(l, ms, thrusting) ==
    LET vy1 == l.vy + l.gravity
        burns == thrusting /\ l.fuel > 0
        ax == -Sin(l.angle, l.thrust)
        ay == -Cos(l.angle, l.thrust)
        vx2 == IF burns THEN l.vx + ax ELSE l.vx
        vy2 == IF burns THEN vy1 + ay ELSE vy1
        burnt == l.fuel - (l.fuelConsumptionRate * ms * 50) \div 1000
        fuel2 == IF burns THEN (IF burnt < 0 THEN 0 ELSE burnt) ELSE l.fuel
    IN  [l EXCEPT !.vx = vx2, !.vy = vy2, !.fuel = fuel2,
                  !.x = l.x + vx2, !.y = l.y + vy2]

----------------------------------------------------------------------------
(* main *)

NoKeys == [left |-> FALSE, right |-> FALSE, space |-> FALSE]

AllKeys == [left : BOOLEAN, right : BOOLEAN, space : BOOLEAN]

\* lines 234-253: the planets the menu offers, as (selected_planet, gravity)
Planets(randoms, customs) ==
    {<<"Moon", MoonGravity>>, <<"Mars", MarsGravity>>, <<"Europa", EuropaGravity>>}
    \cup {<<"Random", g>> : g \in randoms \cap RandomGravityLow..RandomGravityHigh}
    \cup {<<"Custom", g>> : g \in customs}

\* lines 207-254: a planet key ends the menu loop
MenuSelect(planets) ==
    /\ pc = "menu"
    /\ \E p \in planets :
        /\ selected_planet' = p[1]
        /\ gravity' = p[2]
    /\ game_state' = "playing"
    /\ pc' = "terrain"
    /\ UNCHANGED <<depth, score, genVars, loopVars, ground_y, probe_x>>

\* lines 285-288
Rotate(l, k, ms) ==
    LET a1 == IF k.left THEN l.angle + (RotationRate * ms) \div 100 ELSE l.angle
        a2 == IF k.right THEN a1 - (RotationRate * ms) \div 100 ELSE a1
    IN  [l EXCEPT !.angle = a2]

\* lines 294-295
ClampX(l) ==
    [l EXCEPT !.x = IF l.x < 0 THEN 0 ELSE IF l.x > WIDTH * 100 THEN WIDTH * 100 ELSE l.x]

\* line 300
LanderBottom(l) == l.y + HalfExtent * 100

\* line 301
Contact(l, ground) == HundredthsGeq(LanderBottom(l), ground)

\* lines 303-307: the first zone whose rect spans x, 0 for None
ZoneContains(z, x) == RectLeft(z) * 100 <= x /\ x <= RectRight(z) * 100

FirstZone(zones, x) ==
    IF \E k \in 1..Len(zones) : ZoneContains(zones[k], x)
    THEN CHOOSE k \in 1..Len(zones) :
            /\ ZoneContains(zones[k], x)
            /\ \A j \in 1..(k - 1) : ~ZoneContains(zones[j], x)
    ELSE 0

\* line 308: math.hypot(vx, vy), as its square
HypotSq(vx, vy) == vx * vx + vy * vy

\* a speed test with a strict threshold
SpeedBelow(sq, maxSpeed) == sq < (maxSpeed * 100) * (maxSpeed * 100)

\* line 309: speed <= maxLandingSpeed
SpeedWithin(sq, maxSpeed) == sq <= (maxSpeed * 100) * (maxSpeed * 100)

\* least k >= 0 with (2k)^2 >= sq: the ceiling of sqrt(sq)/2
CeilHalfRoot(sq) ==
    CHOOSE k \in 0..(sq + 1) : 4 * k * k >= sq /\ (k = 0 \/ 4 * (k - 1) * (k - 1) < sq)

\* line 310: max(0, int((maxLandingSpeed - speed) * 50)); int truncates toward
\* zero, so a negative product gives 0 either way
Bonus(maxSpeed, sq) ==
    IF SpeedWithin(sq, maxSpeed)
    THEN Max(0, BonusFactor * maxSpeed - CeilHalfRoot(sq))
    ELSE 0

\* a score that rounds the fuel to the nearest unit instead of truncating it
ScoreDeltaRounded(fuel, maxSpeed, sq) ==
    (fuel + 25) \div 50
    + (IF sq <= (maxSpeed * 100) * (maxSpeed * 100)
       THEN BonusFactor * maxSpeed - (CHOOSE k \in 0..(sq + 1) :
                4 * k * k >= sq /\ (k = 0 \/ 4 * (k - 1) * (k - 1) < sq))
       ELSE 0)

\* line 311: int(lander.fuel) + bonus
ScoreDelta(fuel, maxSpeed, sq) == fuel \div 50 + Bonus(maxSpeed, sq)

\* the inputs the loop iteration may read: any at every InputPeriod-th tick,
\* the previous ones otherwise
Inputs(keyChoices, dtChoices) ==
    {i \in keyChoices \X dtChoices :
        frame % InputPeriod = 0 \/ (i[1] = keys /\ i[2] = dt)}

\* a stop that forgets the vertical velocity
StopMotionHorizontal(l) == [l EXCEPT !.vx = 0]

\* line 316
StopMotion(l) == [l EXCEPT !.vx = 0, !.vy = 0]

\* a restart check that forgets the game_state test
RestartAnytime(state) == state \in {"playing", "landed", "crashed"}

\* lines 277-280
RestartAllowed(state) == state \in {"landed", "crashed"}

\* lines 269-316 with game_state = "playing"; an R key event is ignored
PlayTick(keyChoices, dtChoices) ==
    /\ pc = "loop"
    /\ game_state = "playing"
    /\ frame < MaxFrames
    /\ \E i \in Inputs(keyChoices, dtChoices) :
        LET moved == ClampX(Update(Rotate(lander, i[1], i[2]), i[2], i[1].space))
            ground == get_terrain_height(moved.x, terrain_points, DefaultStep)
        IN  /\ keys' = i[1]
            /\ dt' = i[2]
            /\ frame' = frame + 1
            /\ ground_y' = ground
            /\ IF Raised(ground)
               THEN /\ pc' = ErrorName(ground)
                    /\ lander' = moved
                    /\ UNCHANGED <<game_state, score, in_zone, speedSq>>
               ELSE IF Contact(moved, ground)
               THEN LET zone == FirstZone(landing_zones, moved.x)
                        sq == HypotSq(moved.vx, moved.vy)
                        lands == zone # 0 /\ SpeedWithin(sq, landing_zones[zone].maxLandingSpeed)
                    IN  /\ in_zone' = zone
                        /\ speedSq' = sq
                        /\ score' = IF lands
                                     THEN score + ScoreDelta(moved.fuel, landing_zones[zone].maxLandingSpeed, sq)
                                     ELSE score
                        /\ game_state' = IF lands THEN "landed" ELSE "crashed"
                        /\ lander' = StopMotion(moved)
                        /\ pc' = "loop"
               ELSE /\ lander' = moved
                    /\ pc' = "loop"
                    /\ UNCHANGED <<game_state, score, in_zone, speedSq>>
    /\ UNCHANGED <<depth, selected_planet, gravity, genVars, probe_x>>

\* lines 269-349 with game_state landed or crashed and no R key event
IdleTick(keyChoices, dtChoices) ==
    /\ pc = "loop"
    /\ game_state \in {"landed", "crashed"}
    /\ \E i \in keyChoices \X dtChoices :
        /\ keys' = i[1]
        /\ dt' = i[2]
    /\ UNCHANGED <<pc, depth, menuVars, genVars, lander, frame, in_zone, speedSq, ground_y, probe_x>>

\* lines 191-202: main() starts
InitMain ==
    /\ depth = 0
    /\ pc = "menu"
    /\ game_state = "menu"
    /\ score = 0
    /\ selected_planet = "None"
    /\ gravity = DefaultGravity
    /\ terrain_points = <<>>
    /\ landing_zones = <<>>
    /\ used_zones = <<>>
    /\ attempts = 0
    /\ pad_x = 0
    /\ pad_right = 0
    /\ overlap = FALSE
    /\ lander = NoLander
    /\ keys = NoKeys
    /\ dt = 0
    /\ frame = 0
    /\ ground_y = Unset
    /\ in_zone = 0
    /\ speedSq = 0
    /\ probe_x = 0

\* lines 277-280: an R key event in the loop calls main() again
Restart ==
    /\ pc = "loop"
    /\ RestartAllowed(game_state)
    /\ depth < MaxRestarts
    /\ depth' = depth + 1
    /\ pc' = "menu"
    /\ game_state' = "menu"
    /\ score' = 0
    /\ selected_planet' = "None"
    /\ gravity' = DefaultGravity
    /\ terrain_points' = <<>>
    /\ landing_zones' = <<>>
    /\ used_zones' = <<>>
    /\ attempts' = 0
    /\ pad_x' = 0
    /\ pad_right' = 0
    /\ overlap' = FALSE
    /\ lander' = NoLander
    /\ keys' = NoKeys
    /\ dt' = 0
    /\ frame' = 0
    /\ ground_y' = Unset
    /\ in_zone' = 0
    /\ speedSq' = 0
    /\ probe_x' = 0

\* a query of the height field at any x
Probe(xs) ==
    /\ pc = "loop"
    /\ \E x \in xs :
        /\ probe_x' = x
        /\ ground_y' = get_terrain_height(x, terrain_points, DefaultStep)
        /\ pc' = IF Raised(ground_y') THEN ErrorName(ground_y') ELSE "loop"
    /\ UNCHANGED <<depth, menuVars, genVars, loopVars>>

----------------------------------------------------------------------------
(* Specifications *)

\* the random, custom-gravity, keyboard and frame-time values explored
PlayPlanets == Planets({12}, {200})

PlayHeights == {FlatHeights(504), FlatHeights(520)}

PlayPadDraws == PadDraws({<<100, 550>>, <<80, 600>>, <<100, 500>>, <<150, 900>>})

PlayKeys ==
    {NoKeys,
     [left |-> FALSE, right |-> FALSE, space |-> TRUE],
     [left |-> TRUE, right |-> FALSE, space |-> TRUE],
     [left |-> TRUE, right |-> TRUE, space |-> FALSE]}

PlayDts == {0, 16, 6000}

Init == InitMain

Next ==
    \/ MenuSelect(PlayPlanets)
    \/ GenerateTerrain(PlayHeights)
    \/ PadAttempt(PlayPadDraws)
    \/ GenReturn
    \/ PlayTick(PlayKeys, PlayDts)
    \/ IdleTick(PlayKeys, PlayDts)
    \/ Restart

Spec == Init /\ [][Next]_vars

\* generation alone, over more terrains and pad candidates
GenPlanets == {<<"Moon", MoonGravity>>}

GenHeights == {FlatHeights(600), JaggedHeights(500, 201, 37), JaggedHeights(520, 170, 11)}

GenPadDraws ==
    PadDraws({<<80, 50>>, <<150, 1000>>, <<100, 200>>, <<80, 300>>, <<80, 301>>,
              <<120, 250>>, <<80, 120>>, <<95, 433>>})

NextGen ==
    \/ MenuSelect(GenPlanets)
    \/ GenerateTerrain(GenHeights)
    \/ PadAttempt(GenPadDraws)
    \/ GenReturn

SpecGen == Init /\ [][NextGen]_vars

\* the height field queried at any x, on the profiles generation returns
ProbeHeights == {JaggedHeights(500, 201, 37), JaggedHeights(520, 170, 11)}

ProbePadDraws == PadDraws({<<100, 550>>, <<95, 433>>, <<150, 1000>>})

ProbeXs ==
    {k * 2000 : k \in -1..61} \cup {k * 2000 + 500 : k \in 0..59}
    \cup {-1, 1, 59999, 118001, 119999, 120001}

NextHeight ==
    \/ MenuSelect(GenPlanets)
    \/ GenerateTerrain(ProbeHeights)
    \/ PadAttempt(ProbePadDraws)
    \/ GenReturn
    \/ Probe(ProbeXs)

SpecHeight == Init /\ [][NextHeight]_vars

----------------------------------------------------------------------------
(* Claims *)

Terminal == {"landed", "crashed"}

\* C1: once generate_terrain_and_landing_zones has placed its pads, no two of
\* them overlap in x-range: for distinct pads i, j, pad_i.right < pad_j.left
\* or pad_i.left > pad_j.right.
C1_PadsNeverOverlap ==
    \A i, j \in 1..Len(landing_zones) :
        i # j =>
            \/ RectRight(landing_zones[i]) < RectLeft(landing_zones[j])
            \/ RectLeft(landing_zones[i]) > RectRight(landing_zones[j])

\* generation has returned three pads
C1_Witness == pc = "loop" /\ Len(landing_zones) = 3

\* C2: fuel is never negative and never above the initial 100, and a tick that
\* burns (thrust held, fuel > 0) takes 20 * dt off, stopping at exactly 0; any
\* other tick leaves the fuel alone.
C2_FuelNeverNegative ==
    [][pc' = "loop" =>
        /\ lander'.fuel >= 0
        /\ lander'.fuel <= InitialFuel * 50
        /\ frame' = frame + 1 =>
            IF keys'.space /\ lander.fuel > 0
            THEN lander'.fuel = (IF lander.fuel < dt' THEN 0 ELSE lander.fuel - dt')
            ELSE lander'.fuel = lander.fuel]_vars

\* a burn of 6 s (120 units) on a tank that held less has left exactly 0
C2_Witness ==
    /\ pc = "loop" /\ frame >= 1
    /\ keys.space /\ dt = 6000
    /\ lander.fuel = 0

\* C3: on a tick with ground contact (y + 15 >= heightAt(x)) the outcome
\* becomes Landed iff some pad spans x (boundaries included) and the speed is
\* at most that pad's maxLandingSpeed (inclusive), and Crashed otherwise; with
\* no contact it stays InProgress.  The speed is that of the tick's motion.
C3_LandingClassification ==
    [][frame' = frame + 1 /\ pc' = "loop" =>
        LET ground == get_terrain_height(lander'.x, terrain_points, DefaultStep)
            contact == HundredthsGeq(lander'.y + 1500, ground)
            padOk == \E k \in 1..Len(landing_zones) :
                        /\ RectLeft(landing_zones[k]) * 100 <= lander'.x
                        /\ lander'.x <= RectRight(landing_zones[k]) * 100
                        /\ speedSq' <= (landing_zones[k].maxLandingSpeed * 100)
                                        * (landing_zones[k].maxLandingSpeed * 100)
        IN  IF contact
            THEN /\ game_state' = (IF padOk THEN "landed" ELSE "crashed")
                 /\ (0 < lander'.x /\ lander'.x < WIDTH * 100) =>
                        speedSq' = (lander'.x - lander.x) * (lander'.x - lander.x)
                                   + (lander'.y - lander.y) * (lander'.y - lander.y)
            ELSE game_state' = "playing"]_vars

\* landed at exactly maxLandingSpeed with the craft on the pad's left boundary
C3_Witness ==
    /\ game_state = "landed"
    /\ speedSq = 200 * 200
    /\ lander.x = RectLeft(landing_zones[in_zone]) * 100

\* C4: the tick that ends the session zeroes the velocity, and from then on,
\* until a restart, the outcome, the craft (position, velocity, angle, fuel)
\* and the score stay as they are, whatever keys are held.
C4_TerminalFreeze ==
    [][/\ (game_state = "playing" /\ game_state' \in Terminal) =>
            (lander'.vx = 0 /\ lander'.vy = 0)
       /\ (game_state \in Terminal /\ depth' = depth) =>
            /\ game_state' = game_state
            /\ lander' = lander
            /\ score' = score]_vars

\* a tick after the landing, with rotate-left and thrust held for 6 s, has left
\* the craft at angle 0
C4_Witness ==
    /\ game_state = "landed"
    /\ keys = [left |-> TRUE, right |-> FALSE, space |-> TRUE] /\ dt = 6000
    /\ lander.angle = 0 /\ lander.vx = 0 /\ lander.vy = 0

\* C5: within a session the score changes only on the tick that lands, and
\* then by floor(fuel) + max(0, floor((maxLandingSpeed - speed) * 50)) with
\* the fuel and speed after that tick's motion; maxLandingSpeed 2, speed 1.0,
\* fuel 47.6 give 97.
C5_ScoreDelta ==
    /\ ScoreDelta(2380, 2, 100 * 100) = 97
    /\ [][pc = "loop" /\ pc' = "loop" =>
            IF game_state = "playing" /\ game_state' = "landed"
            THEN LET top == BonusFactor * landing_zones[in_zone'].maxLandingSpeed
                 IN  \E b \in 0..top :
                        /\ score' = score + lander'.fuel \div 50 + b
                        \* b <= (max - speed) * 50 < b + 1, in squares
                        /\ speedSq' <= 4 * (top - b) * (top - b)
                        /\ (b < top => speedSq' > 4 * (top - b - 1) * (top - b - 1))
            ELSE score' = score]_vars

\* a landing below the maximum speed: the score holds a bonus
C5_Witness ==
    /\ game_state = "landed"
    /\ speedSq < 200 * 200
    /\ score > lander.fuel \div 50

\* C6: get_terrain_height on the W/S + 1 samples returns the first sample's y
\* for x <= 0, the last sample's y for x >= W, and sample k's y at x = k * S;
\* the query leaves the profile as it is.
C6_HeightAtSamples ==
    [][(pc = "loop" /\ pc' = "loop") =>
        /\ terrain_points' = terrain_points
        /\ Len(terrain_points) = WIDTH \div TerrainStep + 1
        /\ probe_x' <= 0 => ground_y' = terrain_points[1].y
        /\ probe_x' >= WIDTH * 100 => ground_y' = terrain_points[Len(terrain_points)].y
        /\ \A k \in 0..(WIDTH \div TerrainStep) :
            /\ terrain_points[k + 1].x = k * TerrainStep
            /\ probe_x' = k * TerrainStep * 100 => ground_y' = terrain_points[k + 1].y]_vars

\* a query at the grid point x = 140, whose neighbours are at other heights
C6_Witness ==
    /\ pc = "loop" /\ probe_x = 7 * 2000
    /\ ground_y = terrain_points[8].y
    /\ terrain_points[8].y # terrain_points[9].y
    /\ terrain_points[8].y # terrain_points[7].y

\* C7: no get_terrain_height call divides by zero, at a sample boundary or in
\* the last segment or anywhere else.
C7_NoDivisionByZero ==
    /\ pc # "ZeroDivisionError"
    /\ ground_y # ZeroDivision
    /\ (pc = "loop" /\ 0 < probe_x /\ probe_x < WIDTH * 100) =>
        LET idx == probe_x \div (DefaultStep * 100)
        IN  /\ idx + 2 <= Len(terrain_points)
            /\ terrain_points[idx + 2].x # terrain_points[idx + 1].x
            /\ ground_y.d > 0

\* a query inside the last segment, just left of x = W, returned a height
C7_Witness == pc = "loop" /\ probe_x = 119999 /\ ground_y.d > 0

\* the closed x-ranges px..pr and zone share a point
SharesX(px, pr, zone) == \E v \in px..pr : zone[1] <= v /\ v <= zone[2]

\* the x-ranges overlap in more than an edge
StrictlyOverlaps(px, pr, zone) == px < zone[2] /\ zone[1] < pr

IsAttempt == pc = "pads" /\ attempts' = attempts + 1

Placed ==
    /\ Len(landing_zones') = Len(landing_zones) + 1
    /\ RectLeft(landing_zones'[Len(landing_zones')]) = pad_x'
    /\ RectRight(landing_zones'[Len(landing_zones')]) = pad_right'

\* C8 as stated: a candidate is rejected exactly when its x-range strictly
\* overlaps a placed pad's; one that only touches a placed pad is placed.
C8_TouchingAllowed ==
    [][IsAttempt =>
        IF \E k \in 1..Len(used_zones) : StrictlyOverlaps(pad_x', pad_right', used_zones[k])
        THEN landing_zones' = landing_zones
        ELSE Placed]_vars

\* C8 amended: a candidate is rejected exactly when its closed x-range
\* [pad_x, pad_right] shares at least one x with a placed pad's closed range,
\* so a candidate that only touches a placed pad's edge is rejected too; every
\* other candidate is placed.
C8_TouchingRejected ==
    [][IsAttempt =>
        IF \E k \in 1..Len(used_zones) : SharesX(pad_x', pad_right', used_zones[k])
        THEN landing_zones' = landing_zones /\ overlap'
        ELSE Placed /\ ~overlap']_vars

\* a candidate that shares only an edge with a placed pad has been rejected
C8_Witness ==
    /\ pc = "pads" /\ attempts >= 2 /\ overlap
    /\ \A k \in 1..Len(used_zones) : ~StrictlyOverlaps(pad_x, pad_right, used_zones[k])
    /\ \E k \in 1..Len(used_zones) :
        pad_right = used_zones[k][1] \/ pad_x = used_zones[k][2]

\* C9: a restart happens only from Landed or Crashed; it leaves nothing of the
\* old session (no terrain, pads, craft or outcome), and when play begins the
\* craft has fuel 100, velocity (0, 0), angle 0 and sits at (W/2, 100), the
\* outcome is InProgress and the terrain and pads are those just generated.
C9_Restart ==
    [][/\ depth' # depth =>
            /\ game_state \in Terminal
            /\ game_state' = "menu" /\ pc' = "menu"
            /\ terrain_points' = <<>> /\ landing_zones' = <<>>
            /\ lander' = NoLander
            /\ in_zone' = 0 /\ ground_y' = Unset
       /\ (game_state = "playing" /\ pc = "loop") => depth' = depth
       /\ (pc = "terrain" /\ pc' # "terrain") =>
            (pc' = "pads" /\ landing_zones' = <<>> /\ Len(terrain_points') = WIDTH \div TerrainStep + 1)
       /\ (pc # "loop" /\ pc' = "loop") =>
            /\ pc = "pads"
            /\ lander'.fuel = 100 * 50
            /\ lander'.vx = 0 /\ lander'.vy = 0 /\ lander'.angle = 0
            /\ lander'.x = (WIDTH \div 2) * 100 /\ lander'.y = 100 * 100
            /\ game_state' = "playing"
            /\ terrain_points' = terrain_points /\ landing_zones' = landing_zones]_vars

\* play begins again after a restart
C9_Witness ==
    /\ depth = 1 /\ pc = "loop" /\ game_state = "playing" /\ frame = 0
    /\ lander.fuel = 100 * 50 /\ Len(landing_zones) >= 1

\* C10: pad carving makes at most 20 attempts, each loop iteration being one;
\* the first attempt is never rejected; carving stops as soon as 3 pads are
\* placed and otherwise only when the attempts are used up, so the function
\* returns between 1 and 3 pads.
C10_CarvingTerminates ==
    [][pc = "pads" =>
        /\ attempts <= 20 /\ attempts' <= 20
        /\ pc' = "pads" => attempts' = attempts + 1
        /\ attempts = 0 => (Len(landing_zones') = 1 /\ ~overlap')
        /\ Len(landing_zones) = 3 => pc' = "loop"
        /\ pc' = "loop" =>
            /\ Len(landing_zones') \in 1..3
            /\ landing_zones' = landing_zones
            /\ Len(landing_zones) < 3 => attempts = 20]_vars

\* the attempts are used up with fewer than three pads placed
C10_Witness == pc = "pads" /\ attempts = 20 /\ Len(landing_zones) \in 1..2

====
